---- MODULE Spec2Model ----
(***************************************************************************)
(* A model of clean_data.py: the workbook row extractor, the row cleaner,  *)
(* the deduplicator, the CSV writer and the command line entry point.      *)
(*                                                                         *)
(* Text is a sequence of Unicode code points, so that str.isalpha,         *)
(* str.upper, ord, str.strip, str.isdigit and int are computed character   *)
(* by character as Python computes them.  The characters of the model are  *)
(* ASCII plus U+00A0 (no-break space), U+00B2 (superscript two, a digit    *)
(* for str.isdigit but not for int), U+0663 (Arabic-Indic digit three, a   *)
(* decimal digit for both) and U+00E9 / U+00C9 (e-acute, alphabetic).      *)
(***************************************************************************)
EXTENDS Integers, Sequences, FiniteSets, TLC

VARIABLES
    argc,            \* main: number of command line arguments
    pc,              \* position in the program
    called,          \* main: the functions main has called so far
    zf,              \* the workbook archive (the input file)
    column,          \* _column_name_to_index: its argument
    colResult,       \* _column_name_to_index: its result
    shared_strings,  \* _iter_sheet_rows: the shared string table
    ri,              \* _iter_sheet_rows: position of the current row element
    ci,              \* _iter_sheet_rows: position of the current cell element
    cells,           \* _iter_sheet_rows: column index -> text of the current row
    max_index,       \* _iter_sheet_rows: largest column index of the current row
    rows,            \* load_house_data: the rows the extractor yielded
    di,              \* load_house_data: position of the current data row
    cleaned_rows,    \* load_house_data: the listing records of the valid rows
    ui,              \* load_house_data: position of the current cleaned record
    unique_rows,     \* load_house_data: the records kept by deduplication
    seen_keys,       \* load_house_data: the keys seen so far
    err,             \* the exception raised, "none" when there is none
    dest,            \* the destination file: opened for writing or not, its lines
    stderr,          \* what main printed to the error stream
    stdout,          \* what main printed to the standard output
    exitStatus       \* the exit status of the process, -1 while it runs

vars == <<argc, pc, called, zf, column, colResult, shared_strings, ri, ci, cells,
          max_index, rows, di, cleaned_rows, ui, unique_rows, seen_keys, err,
          dest, stderr, stdout, exitStatus>>

----------------------------------------------------------------------------
(* Characters and the str methods the program uses.                        *)

\* All sequences over S of length at most n.
SeqsUpTo(S, n) == UNION {[1..k -> S] : k \in 0..n}

\* str.isalpha on one character.
IsAlpha(c) == c \in (65..90) \cup (97..122) \cup {201, 233}

\* str.upper on one character.
Upper(c) == IF c \in 97..122 THEN c - 32 ELSE IF c = 233 THEN 201 ELSE c

\* str.isspace on one character (what str.strip and int strip).
IsSpace(c) == c \in {9, 10, 13, 32, 160}

\* str.isdigit on one character: decimal digits and digit-like characters.
IsDigit(c) == c \in (48..57) \cup (1632..1641) \cup {178}

\* The characters int accepts as decimal digits.
IsDecimal(c) == c \in (48..57) \cup (1632..1641)

\* The value int gives a decimal digit.
DigitValue(c) == IF c \in 48..57 THEN c - 48 ELSE c - 1632

\* str.strip: drop the leading and the trailing whitespace.
RECURSIVE LStrip(_)
LStrip(s) == IF s # <<>> /\ IsSpace(Head(s)) THEN LStrip(Tail(s)) ELSE s

RECURSIVE RStrip(_)
RStrip(s) ==
    IF s # <<>> /\ IsSpace(s[Len(s)]) THEN RStrip(SubSeq(s, 1, Len(s) - 1)) ELSE s

Strip(s) == RStrip(LStrip(s))

\* str.isdigit: non-empty and every character a digit.
StrIsDigit(s) == s # <<>> /\ \A k \in 1..Len(s) : IsDigit(s[k])

\* Only the leading run of alphabetic characters of s.
RECURSIVE LeadingAlphaRun(_)
LeadingAlphaRun(s) ==
    IF s # <<>> /\ IsAlpha(Head(s)) THEN <<Head(s)>> \o LeadingAlphaRun(Tail(s)) ELSE <<>>

\* "".join(filter(str.isalpha, s)): the alphabetic characters of s, in order.
RECURSIVE FilterAlpha(_)
FilterAlpha(s) ==
    IF s = <<>> THEN <<>>
    ELSE IF IsAlpha(Head(s)) THEN <<Head(s)>> \o FilterAlpha(Tail(s))
    ELSE FilterAlpha(Tail(s))

\* The value of a run of decimal digits, most significant first.
RECURSIVE DecimalValue(_, _)
DecimalValue(s, acc) ==
    IF s = <<>> THEN acc ELSE DecimalValue(Tail(s), acc * 10 + DigitValue(Head(s)))

\* int(s): optional whitespace around an optional sign and decimal digits;
\* anything else raises ValueError.  (int also takes single underscores between
\* digits; no text of the model holds one.)
PyInt(s) ==
    LET t == Strip(s)
        signed == t # <<>> /\ Head(t) \in {43, 45}
        digits == IF signed THEN Tail(t) ELSE t
    IN  IF digits = <<>> \/ \E k \in 1..Len(digits) : ~IsDecimal(digits[k])
        THEN [err |-> "ValueError", val |-> 0]
        ELSE [err |-> "none",
              val |-> IF signed /\ Head(t) = 45
                      THEN 0 - DecimalValue(digits, 0)
                      ELSE DecimalValue(digits, 0)]

----------------------------------------------------------------------------
(* _column_name_to_index                                                   *)

\* The loop with the letters numbered 0..25 (plain base 26, A = 0).
RECURSIVE ColumnLoopZeroBased(_, _, _)
ColumnLoopZeroBased(col, k, value) ==
    IF k > Len(col) THEN [err |-> "none", val |-> value]
    ELSE IF ~IsAlpha(col[k]) THEN [err |-> "ValueError", val |-> 0]
    ELSE ColumnLoopZeroBased(col, k + 1, value * 26 + (Upper(col[k]) - 65))

\* The loop of _column_name_to_index from character k on, value so far given.
RECURSIVE ColumnLoop(_, _, _)
ColumnLoop(col, k, value) ==
    IF k > Len(col) THEN [err |-> "none", val |-> value - 1]
    ELSE IF ~IsAlpha(col[k]) THEN [err |-> "ValueError", val |-> 0]
    ELSE ColumnLoop(col, k + 1, value * 26 + (Upper(col[k]) - 65 + 1))

_column_name_to_index(col) == ColumnLoop(col, 1, 0)

----------------------------------------------------------------------------
(* The workbook archive.                                                   *)
(*   hasSheet     : xl/worksheets/sheet1.xml is in the archive             *)
(*   hasSheetData : the sheet document has a sheetData element             *)
(*   hasShared    : xl/sharedStrings.xml is in the archive                 *)
(*   si           : the si elements, each the texts of its t elements      *)
(*   sheet        : the row elements, each the sequence of its c elements  *)
(* A c element is [r |-> the r attribute, t |-> the t attribute or         *)
(* "absent", v |-> <<>> when it has no v text, else <<the text>>].         *)

\* "".join(fragments)
RECURSIVE Join(_)
Join(fragments) == IF fragments = <<>> THEN <<>> ELSE Head(fragments) \o Join(Tail(fragments))

_load_shared_strings(z) ==
    IF ~z.hasShared THEN <<>> ELSE [k \in 1..Len(z.si) |-> Join(z.si[k])]

\* list[i] as Python indexes a list: negative i counts from the end.
ListIndex(list, i) ==
    IF 0 <= i /\ i < Len(list) THEN [err |-> "none", val |-> list[i + 1]]
    ELSE IF 0 - Len(list) <= i /\ i < 0 THEN [err |-> "none", val |-> list[Len(list) + i + 1]]
    ELSE [err |-> "IndexError", val |-> <<>>]

\* The text of a cell: lines 60-64 of _iter_sheet_rows.
CellText(cell, table) ==
    LET raw_value == IF cell.v = <<>> THEN <<>> ELSE cell.v[1]
    IN  IF cell.t = "s" /\ raw_value # <<>>
        THEN LET i == PyInt(raw_value)
             IN  IF i.err # "none" THEN [err |-> i.err, val |-> <<>>]
                 ELSE ListIndex(table, i.val)
        ELSE [err |-> "none", val |-> raw_value]

\* A dense row that stops one short: range(max_index).
DenseRowShort(cs, maxi) == [i \in 1..maxi |-> IF (i - 1) \in DOMAIN cs THEN cs[i - 1] ELSE <<>>]

\* [cells.get(i, "") for i in range(max_index + 1)]
DenseRow(cs, maxi) == [i \in 1..(maxi + 1) |-> IF (i - 1) \in DOMAIN cs THEN cs[i - 1] ELSE <<>>]

\* with ZipFile(path) as zf / zf.open(sheet) / _load_shared_strings /
\* document.getroot().find("t:sheetData")
OpenSheet ==
    /\ pc = "open"
    /\ IF ~zf.hasSheet
       THEN /\ err' = "KeyError"
            /\ pc' = "raised"
            /\ UNCHANGED <<shared_strings, rows>>
       ELSE /\ shared_strings' = _load_shared_strings(zf)
            /\ err' = err
            /\ IF ~zf.hasSheetData
               THEN pc' = "header" /\ rows' = <<>>
               ELSE pc' = "row" /\ rows' = <<>>
    /\ ri' = 1 /\ ci' = 1 /\ cells' = <<>> /\ max_index' = -1
    /\ UNCHANGED <<argc, called, zf, column, colResult, di, cleaned_rows, ui,
                   unique_rows, seen_keys, dest, stderr, stdout, exitStatus>>

\* One iteration of "for cell in row.findall('t:c', NS)".
NextCell ==
    /\ pc = "row" /\ ri <= Len(zf.sheet) /\ ci <= Len(zf.sheet[ri])
    /\ LET cell == zf.sheet[ri][ci]
           column_letters == FilterAlpha(cell.r)
           index == _column_name_to_index(column_letters)
           text == CellText(cell, shared_strings)
       IN  IF column_letters = <<>>
           THEN /\ ci' = ci + 1
                /\ UNCHANGED <<pc, err, cells, max_index>>
           ELSE IF index.err # "none"
           THEN /\ err' = index.err /\ pc' = "raised"
                /\ UNCHANGED <<ci, cells, max_index>>
           ELSE IF text.err # "none"
           THEN /\ err' = text.err /\ pc' = "raised"
                /\ max_index' = IF index.val > max_index THEN index.val ELSE max_index
                /\ UNCHANGED <<ci, cells>>
           ELSE /\ max_index' = IF index.val > max_index THEN index.val ELSE max_index
                /\ cells' = [i \in DOMAIN cells \cup {index.val} |->
                                IF i = index.val THEN text.val ELSE cells[i]]
                /\ ci' = ci + 1
                /\ UNCHANGED <<pc, err>>
    /\ UNCHANGED <<argc, called, zf, column, colResult, shared_strings, ri, rows, di,
                   cleaned_rows, ui, unique_rows, seen_keys, dest, stderr, stdout,
                   exitStatus>>

\* The end of a row element: "if max_index >= 0: yield [...]".
EndRow ==
    /\ pc = "row" /\ ri <= Len(zf.sheet) /\ ci > Len(zf.sheet[ri])
    /\ rows' = IF max_index >= 0 THEN Append(rows, DenseRow(cells, max_index)) ELSE rows
    /\ ri' = ri + 1 /\ ci' = 1 /\ cells' = <<>> /\ max_index' = -1
    /\ UNCHANGED <<argc, pc, called, zf, column, colResult, shared_strings, di,
                   cleaned_rows, ui, unique_rows, seen_keys, err, dest, stderr, stdout,
                   exitStatus>>

\* The generator is exhausted: rows = list(_iter_sheet_rows(zf)) is complete.
EndSheet ==
    /\ pc = "row" /\ ri > Len(zf.sheet)
    /\ pc' = "header"
    /\ UNCHANGED <<argc, called, zf, column, colResult, shared_strings, ri, ci, cells,
                   max_index, rows, di, cleaned_rows, ui, unique_rows, seen_keys, err,
                   dest, stderr, stdout, exitStatus>>

----------------------------------------------------------------------------
(* load_house_data                                                         *)

expected_header ==
    << <<78, 79>>, <<78, 65, 77, 65, 32, 82, 85, 77, 65, 72>>, <<72, 65, 82, 71, 65>>,
       <<76, 66>>, <<76, 84>>, <<75, 84>>, <<75, 77>>, <<71, 82, 83>> >>

\* A header check that compares the first eight columns only.
HeaderStartsWithExpected(header) ==
    /\ Len(header) >= Len(expected_header)
    /\ SubSeq(header, 1, Len(expected_header)) = expected_header

\* header != expected_header is false
HeaderMatches(header) == header = expected_header

\* A numeric cleaner that does not trim the value.
CleanNumericNoStrip(value) ==
    IF value = <<>> THEN [err |-> "ValueError", val |-> 0]
    ELSE IF ~StrIsDigit(value) THEN [err |-> "ValueError", val |-> 0]
    ELSE PyInt(value)

_clean_numeric(value) ==
    LET cleaned == Strip(value)
    IN  IF cleaned = <<>> THEN [err |-> "ValueError", val |-> 0]
        ELSE IF ~StrIsDigit(cleaned) THEN [err |-> "ValueError", val |-> 0]
        ELSE PyInt(cleaned)

\* A padding that fills the missing columns with "0".
PadRowWithZero(row) ==
    IF Len(row) < Len(expected_header)
    THEN row \o [k \in 1..(Len(expected_header) - Len(row)) |-> <<48>>]
    ELSE row

\* row + [""] * (len(expected_header) - len(row)) when the row is shorter
PadRow(row) ==
    IF Len(row) < Len(expected_header)
    THEN row \o [k \in 1..(Len(expected_header) - Len(row)) |-> <<>>]
    ELSE row

\* The six numeric fields of a padded row, row[2] .. row[7] of the source.
NumericFields(row) == [k \in 1..6 |-> _clean_numeric(row[k + 2])]

\* The record appended to cleaned_rows.
Entry(row, num) ==
    [name |-> Strip(row[2]), price |-> num[1].val, building_area |-> num[2].val,
     land_area |-> num[3].val, bedrooms |-> num[4].val, bathrooms |-> num[5].val,
     garage |-> num[6].val]

\* A key without the name.
KeyWithoutName(entry) ==
    <<entry.price, entry.building_area, entry.land_area, entry.bedrooms,
      entry.bathrooms, entry.garage>>

\* The deduplication key of a record.
Key(entry) ==
    <<entry.name, entry.price, entry.building_area, entry.land_area, entry.bedrooms,
      entry.bathrooms, entry.garage>>

\* "if not rows: raise" and "if header != expected_header: raise"
CheckHeader ==
    /\ pc = "header"
    /\ IF rows = <<>> \/ ~HeaderMatches(rows[1])
       THEN /\ err' = "ValueError" /\ pc' = "raised"
            /\ UNCHANGED <<di, cleaned_rows>>
       ELSE /\ pc' = "clean" /\ di' = 2 /\ cleaned_rows' = <<>>
            /\ UNCHANGED err
    /\ UNCHANGED <<argc, called, zf, column, colResult, shared_strings, ri, ci, cells,
                   max_index, rows, ui, unique_rows, seen_keys, dest, stderr, stdout,
                   exitStatus>>

\* One iteration of "for row in data_rows".
CleanRow ==
    /\ pc = "clean" /\ di <= Len(rows)
    /\ LET row == PadRow(rows[di])
           num == NumericFields(row)
       IN  cleaned_rows' = IF \E k \in 1..6 : num[k].err # "none"
                           THEN cleaned_rows
                           ELSE Append(cleaned_rows, Entry(row, num))
    /\ di' = di + 1
    /\ UNCHANGED <<argc, pc, called, zf, column, colResult, shared_strings, ri, ci, cells,
                   max_index, rows, ui, unique_rows, seen_keys, err, dest, stderr,
                   stdout, exitStatus>>

\* The cleaning loop is over: unique_rows = [], seen_keys = set().
StartDedup ==
    /\ pc = "clean" /\ di > Len(rows)
    /\ pc' = "dedup" /\ ui' = 1 /\ unique_rows' = <<>> /\ seen_keys' = {}
    /\ UNCHANGED <<argc, called, zf, column, colResult, shared_strings, ri, ci, cells,
                   max_index, rows, di, cleaned_rows, err, dest, stderr, stdout,
                   exitStatus>>

\* One iteration of "for entry in cleaned_rows".
DedupEntry ==
    /\ pc = "dedup" /\ ui <= Len(cleaned_rows)
    /\ LET entry == cleaned_rows[ui]
           key == Key(entry)
       IN  IF key \in seen_keys
           THEN UNCHANGED <<seen_keys, unique_rows>>
           ELSE /\ seen_keys' = seen_keys \cup {key}
                /\ unique_rows' = Append(unique_rows, entry)
    /\ ui' = ui + 1
    /\ UNCHANGED <<argc, pc, called, zf, column, colResult, shared_strings, ri, ci, cells,
                   max_index, rows, di, cleaned_rows, err, dest, stderr, stdout,
                   exitStatus>>

\* return unique_rows
ReturnRows ==
    /\ pc = "dedup" /\ ui > Len(cleaned_rows)
    /\ pc' = "returned"
    /\ UNCHANGED <<argc, called, zf, column, colResult, shared_strings, ri, ci, cells,
                   max_index, rows, di, cleaned_rows, ui, unique_rows, seen_keys, err,
                   dest, stderr, stdout, exitStatus>>

----------------------------------------------------------------------------
(* export_to_csv and main                                                  *)

fieldnames ==
    <<"name", "price", "building_area", "land_area", "bedrooms", "bathrooms", "garage">>

\* A check that lets a single argument through: len(argv) > 2.
UsageErrorAboveTwo(n) == n > 2

\* len(argv) not in {0, 2}
UsageError(n) == n \notin {0, 2}

\* A writer that takes any list, the empty one too.
AlwaysSomethingToWrite(records) == FALSE

\* "if not rows: raise ValueError" of export_to_csv
NothingToWrite(records) == records = <<>>

\* What export_to_csv writes: the header line and one line per record.
CsvLines(records) == <<fieldnames>> \o [k \in 1..Len(records) |-> Key(records[k])]

\* main with a wrong argument count: print the usage message, return 2.
MainUsage ==
    /\ pc = "main" /\ UsageError(argc)
    /\ stderr' = "Usage: python clean_data.py [input.xlsx output.csv]"
    /\ exitStatus' = 2
    /\ pc' = "done"
    /\ UNCHANGED <<argc, called, zf, column, colResult, shared_strings, ri, ci, cells,
                   max_index, rows, di, cleaned_rows, ui, unique_rows, seen_keys, err,
                   dest, stdout>>

\* main with zero or two arguments: rows = load_house_data(source)
MainLoad ==
    /\ pc = "main" /\ ~UsageError(argc)
    /\ called' = called \cup {"load_house_data"}
    /\ pc' = "open"
    /\ UNCHANGED <<argc, zf, column, colResult, shared_strings, ri, ci, cells, max_index,
                   rows, di, cleaned_rows, ui, unique_rows, seen_keys, err, dest, stderr,
                   stdout, exitStatus>>

\* export_to_csv(rows, destination)
Export ==
    /\ pc = "returned"
    /\ called' = called \cup {"export_to_csv"}
    /\ IF NothingToWrite(unique_rows)
       THEN /\ err' = "ValueError" /\ pc' = "raised"
            /\ UNCHANGED dest
       ELSE /\ dest' = [opened |-> TRUE, lines |-> CsvLines(unique_rows)]
            /\ pc' = "print"
            /\ UNCHANGED err
    /\ UNCHANGED <<argc, zf, column, colResult, shared_strings, ri, ci, cells, max_index,
                   rows, di, cleaned_rows, ui, unique_rows, seen_keys, stderr, stdout,
                   exitStatus>>

\* print(f"Wrote {len(rows)} cleaned rows to {destination}"); return 0
Finish ==
    /\ pc = "print"
    /\ stdout' = <<"Wrote", Len(unique_rows), "cleaned rows">>
    /\ exitStatus' = 0
    /\ pc' = "done"
    /\ UNCHANGED <<argc, called, zf, column, colResult, shared_strings, ri, ci, cells,
                   max_index, rows, di, cleaned_rows, ui, unique_rows, seen_keys, err,
                   dest, stderr>>

\* An exception no one catches leaves main: the interpreter exits with status 1.
Uncaught ==
    /\ pc = "raised"
    /\ exitStatus' = 1
    /\ pc' = "done"
    /\ UNCHANGED <<argc, called, zf, column, colResult, shared_strings, ri, ci, cells,
                   max_index, rows, di, cleaned_rows, ui, unique_rows, seen_keys, err,
                   dest, stderr, stdout>>

\* A call of _column_name_to_index on its own.
ResolveColumn ==
    /\ pc = "column"
    /\ colResult' = _column_name_to_index(column)
    /\ pc' = "resolved"
    /\ UNCHANGED <<argc, called, zf, column, shared_strings, ri, ci, cells, max_index,
                   rows, di, cleaned_rows, ui, unique_rows, seen_keys, err, dest, stderr,
                   stdout, exitStatus>>

----------------------------------------------------------------------------
(* Initial states.                                                         *)

\* The locals no code has assigned yet, the untouched destination file, the
\* empty output streams.
Fresh ==
    /\ called = {} /\ shared_strings = <<>>
    /\ ri = 1 /\ ci = 1 /\ cells = <<>> /\ max_index = -1
    /\ di = 2 /\ cleaned_rows = <<>>
    /\ ui = 1 /\ unique_rows = <<>> /\ seen_keys = {}
    /\ err = "none" /\ dest = [opened |-> FALSE, lines |-> <<>>]
    /\ stderr = "" /\ stdout = <<>>
    /\ exitStatus = -1
    /\ colResult = [err |-> "unset", val |-> 0]

NoArchive ==
    [hasSheet |-> FALSE, hasSheetData |-> FALSE, hasShared |-> FALSE, si |-> <<>>,
     sheet |-> <<>>]

----------------------------------------------------------------------------
(* _column_name_to_index on every name of at most MaxColumnLen characters  *)
(* over A..Z, a, z, the digit 1 and e-acute.                               *)

MaxColumnLen == 2

ColumnChars == (65..90) \cup {97, 122, 49, 233}

InitColumn ==
    /\ Fresh
    /\ argc = 0 /\ zf = NoArchive /\ rows = <<>>
    /\ pc = "column"
    /\ column \in SeqsUpTo(ColumnChars, MaxColumnLen)

NextColumn == ResolveColumn

SpecColumn == InitColumn /\ [][NextColumn]_vars

\* Only the letters A..Z and a..z.
IsLetters(s) == \A k \in 1..Len(s) : s[k] \in (65..90) \cup (97..122)

\* d(A) = 1 .. d(Z) = 26, in either case.
LetterDigit(c) == IF c \in 65..90 THEN c - 64 ELSE c - 96

RECURSIVE Pow26(_)
Pow26(n) == IF n = 0 THEN 1 ELSE 26 * Pow26(n - 1)

\* The sum over k of d(ck) * 26^(n-k), from position k on.
RECURSIVE PositionalSum(_, _)
PositionalSum(s, k) ==
    IF k > Len(s) THEN 0
    ELSE LetterDigit(s[k]) * Pow26(Len(s) - k) + PositionalSum(s, k + 1)

\* The upper case letters that stand for index n: the inverse mapping.
RECURSIVE IndexToLetters(_)
IndexToLetters(n) ==
    IF n < 0 THEN <<>> ELSE IndexToLetters((n \div 26) - 1) \o <<65 + (n % 26)>>

AsciiUpper(s) == [k \in 1..Len(s) |-> IF s[k] \in 97..122 THEN s[k] - 32 ELSE s[k]]

\* C9: for every non-empty string of letters, _column_name_to_index returns
\* (sum of d(ck) * 26^(n-k)) - 1, so A is 0, Z is 25, AA is 26 and AB is 27; the
\* mapping is one to one (the upper-cased name is recovered from the index) and
\* covers the integers (the index just below is the index of a name that is no
\* longer, so every index from 0 up to that of ZZ..Z is reached).
C9_ColumnIndexIsBijectiveBase26 ==
    (pc = "resolved" /\ column # <<>> /\ IsLetters(column)) =>
        /\ colResult.err = "none"
        /\ colResult.val = PositionalSum(column, 1) - 1
        /\ colResult.val >= 0
        /\ (column = <<65>> => colResult.val = 0)
        /\ (column = <<90>> => colResult.val = 25)
        /\ (column = <<122>> => colResult.val = 25)
        /\ (column = <<65, 65>> => colResult.val = 26)
        /\ (column = <<65, 66>> => colResult.val = 27)
        /\ IndexToLetters(colResult.val) = AsciiUpper(column)
        /\ (colResult.val > 0 =>
               LET below == IndexToLetters(colResult.val - 1)
               IN  /\ Len(below) <= Len(column)
                   /\ _column_name_to_index(below) = [err |-> "none", val |-> colResult.val - 1])

C9_Witness ==
    pc = "resolved" /\ column = <<65, 66>> /\ colResult = [err |-> "none", val |-> 27]

----------------------------------------------------------------------------
(* _iter_sheet_rows on every sheet of at most MaxElems elements.           *)
(* The elements under sheetData are drawn as a flat sequence of row and c  *)
(* elements, each c belonging to the row element before it.                *)

Cell(r, t, v) == [tag |-> "c", r |-> r, t |-> t, v |-> v]

RowStart == [tag |-> "row", r |-> <<>>, t |-> "absent", v |-> <<>>]

\* The row elements of a flat sequence of elements, acc the rows so far.
RECURSIVE GroupRows(_, _)
GroupRows(elems, acc) ==
    IF elems = <<>> THEN acc
    ELSE IF Head(elems).tag = "row" THEN GroupRows(Tail(elems), Append(acc, <<>>))
    ELSE IF acc = <<>> THEN GroupRows(Tail(elems), acc)
    ELSE GroupRows(Tail(elems),
                   [acc EXCEPT ![Len(acc)] = Append(acc[Len(acc)], Head(elems))])

\* The sheets of at most n elements with cells from pool.
Sheets(pool, n) ==
    {<<>>} \cup {GroupRows(<<RowStart>> \o e, <<>>) :
                    e \in SeqsUpTo(pool \cup {RowStart}, n - 1)}

\* Two si elements as in a real table: one run "Foo", two runs "Ba" + "r";
\* then an si element without any t element, then "Baz".
SharedItems ==
    << << <<70, 111, 111>> >>, << <<66, 97>>, <<114>> >>, << >>, << <<66, 97, 122>> >> >>

Archive(sheet, nShared) ==
    [hasSheet |-> TRUE, hasSheetData |-> TRUE, hasShared |-> TRUE,
     si |-> SubSeq(SharedItems, 1, nShared), sheet |-> sheet]

MaxElems == 4

\* A1 = "x", C1 = "y", b1 without a value, a reference "1" without letters, an
\* empty reference, A1B with a letter after the digits, and a shared string at B1.
ExtractCells ==
    { Cell(<<65, 49>>, "absent", << <<120>> >>),
      Cell(<<67, 49>>, "absent", << <<121>> >>),
      Cell(<<98, 49>>, "n", <<>>),
      Cell(<<49>>, "absent", << <<122>> >>),
      Cell(<<>>, "absent", << <<122>> >>),
      Cell(<<65, 49, 66>>, "str", << <<121>> >>),
      Cell(<<66, 49>>, "s", << <<49>> >>) }

InitExtract ==
    /\ Fresh
    /\ argc = 0 /\ column = <<>> /\ rows = <<>>
    /\ pc = "open"
    /\ zf \in {Archive(sh, 2) : sh \in Sheets(ExtractCells, MaxElems)}

NextExtract == OpenSheet \/ NextCell \/ EndRow \/ EndSheet

SpecExtract == InitExtract /\ [][NextExtract]_vars

\* The alphabetic characters of a reference, wherever they stand.
Letters(ref) == SelectSeq(ref, IsAlpha)

\* The leading run of alphabetic characters of a reference.
RECURSIVE LeadingLetters(_)
LeadingLetters(ref) ==
    IF ref # <<>> /\ IsAlpha(Head(ref)) THEN <<Head(ref)>> \o LeadingLetters(Tail(ref))
    ELSE <<>>

\* The column a run of letters stands for: A = 0, Z = 25, AA = 26.
ColumnOf(letters) == PositionalSum(letters, 1) - 1

SetMax(S) == CHOOSE m \in S : \A x \in S : x <= m

\* The cells of the current row element the extractor is done with.
ProcessedCells ==
    IF pc = "row" /\ ri <= Len(zf.sheet) THEN SubSeq(zf.sheet[ri], 1, ci - 1) ELSE <<>>

Resolvable(cell) == Letters(cell.r) # <<>>

HasResolvable(rowEl) == \E k \in 1..Len(rowEl) : Resolvable(rowEl[k])

\* The number of row elements among the first k that have a resolvable cell.
EmittedBefore(k) == Cardinality({j \in 1..k : HasResolvable(zf.sheet[j])})

\* The columns the cells of a row element refer to.
ColumnsOf(rowEl) ==
    {ColumnOf(Letters(rowEl[k].r)) : k \in {j \in 1..Len(rowEl) : Resolvable(rowEl[j])}}

\* The last cell of a row element that refers to column i.
LastAt(rowEl, i) ==
    SetMax({k \in 1..Len(rowEl) :
               Resolvable(rowEl[k]) /\ ColumnOf(Letters(rowEl[k].r)) = i})

\* The text of a cell: its value, or the table entry a shared string cell names.
TextOf(cell) ==
    IF cell.v = <<>> THEN <<>>
    ELSE IF cell.t = "s" /\ cell.v[1] # <<>> THEN shared_strings[PyInt(cell.v[1]).val + 1]
    ELSE cell.v[1]

\* C8 as claimed: a row element gives a row if and only if it has at least one
\* cell; the row has length (largest column index) + 1, holds each cell's text at
\* the cell's column index and the empty string where no cell refers.
C8_RowIffAnyCell ==
    (pc \in {"row", "header"}) =>
        /\ Len(rows) = Cardinality({k \in 1..(ri - 1) : zf.sheet[k] # <<>>})
        /\ \A k \in 1..(ri - 1) :
              zf.sheet[k] # <<>> =>
                 LET rowEl == zf.sheet[k]
                     row == rows[EmittedBefore(k)]
                     cols == ColumnsOf(rowEl)
                 IN  /\ Len(row) = SetMax(cols) + 1
                     /\ \A c \in 1..Len(rowEl) :
                           row[ColumnOf(Letters(rowEl[c].r)) + 1] = TextOf(rowEl[c])
                     /\ \A i \in 0..(Len(row) - 1) : i \notin cols => row[i + 1] = <<>>

\* C8 as amended: a row element gives a row if and only if it has at least one
\* cell whose reference has a letter; the row has length (largest column index)
\* + 1, holds at each referred column the text of the last cell that refers to
\* it, and the empty string where no cell refers; the other row elements give
\* nothing.
C8_RowIffResolvableCell ==
    (pc \in {"row", "header"}) =>
        /\ Len(rows) = EmittedBefore(ri - 1)
        /\ \A k \in 1..(ri - 1) :
              HasResolvable(zf.sheet[k]) =>
                 LET rowEl == zf.sheet[k]
                     row == rows[EmittedBefore(k)]
                     cols == ColumnsOf(rowEl)
                 IN  /\ Len(row) = SetMax(cols) + 1
                     /\ \A i \in 0..(Len(row) - 1) :
                           row[i + 1] = IF i \in cols THEN TextOf(rowEl[LastAt(rowEl, i)])
                                        ELSE <<>>

\* A row element without cells was left out, and the next one, with cells at A1
\* and C1 only, gave a row of three with the empty string in the middle.
C8_Witness ==
    /\ pc = "header"
    /\ Len(zf.sheet) = 2
    /\ zf.sheet[1] = <<>>
    /\ Len(zf.sheet[2]) = 2
    /\ zf.sheet[2][1].r = <<65, 49>>
    /\ zf.sheet[2][2].r = <<67, 49>>
    /\ rows = << << <<120>>, <<>>, <<121>> >> >>

----------------------------------------------------------------------------
(* _iter_sheet_rows on shared string cells: every table of at most         *)
(* MaxShared entries (and no table document at all), every index from      *)
(* -(MaxShared + 1) to MaxShared, on sheets of at most MaxSharedElems       *)
(* elements.                                                               *)

MaxShared == 2

MaxSharedElems == 3

\* The decimal text of an integer, as a workbook writes an index.
RECURSIVE NatText(_)
NatText(n) == IF n < 10 THEN <<48 + n>> ELSE NatText(n \div 10) \o <<48 + (n % 10)>>

IntText(i) == IF i < 0 THEN <<45>> \o NatText(0 - i) ELSE NatText(i)

\* Shared string cells at A1 with every index; at B1 a shared string cell with an
\* empty v, one without v, one whose text is no integer, and an inline number.
SharedCells ==
    {Cell(<<65, 49>>, "s", <<IntText(i)>>) : i \in (0 - (MaxShared + 1))..MaxShared}
    \cup { Cell(<<66, 49>>, "s", << <<>> >>),
           Cell(<<66, 49>>, "s", <<>>),
           Cell(<<66, 49>>, "s", << <<120>> >>),
           Cell(<<66, 49>>, "n", << <<49>> >>) }

InitShared ==
    /\ Fresh
    /\ argc = 0 /\ column = <<>> /\ rows = <<>>
    /\ pc = "open"
    /\ \E sh \in Sheets(SharedCells, MaxSharedElems) :
          zf \in {Archive(sh, n) : n \in 0..MaxShared}
                 \cup {[Archive(sh, 0) EXCEPT !.hasShared = FALSE]}

SpecShared == InitShared /\ [][NextExtract]_vars

\* A cell marked as a shared string whose value text is an integer.
IsSharedRef(cell) ==
    /\ cell.tag = "c" /\ cell.t = "s" /\ Resolvable(cell)
    /\ cell.v # <<>> /\ cell.v[1] # <<>>
    /\ PyInt(cell.v[1]).err = "none"

SharedIndex(cell) == PyInt(cell.v[1]).val

\* C5: a shared string cell with index i gets table entry i when 0 <= i < the
\* length of the table, and for every other i, the negative ones too, extraction
\* fails: a cell the extractor has passed without an error had an index in range
\* and holds that entry, and a cell it failed on had an index out of range.
C5_SharedIndexInRangeOrError ==
    /\ (pc = "row" /\ ri <= Len(zf.sheet) /\ ci > 1 /\ IsSharedRef(zf.sheet[ri][ci - 1])) =>
          LET cell == zf.sheet[ri][ci - 1]
              i == SharedIndex(cell)
          IN  /\ 0 <= i /\ i < Len(shared_strings)
              /\ cells[ColumnOf(Letters(cell.r))] = shared_strings[i + 1]
    /\ (pc = "raised" /\ IsSharedRef(zf.sheet[ri][ci])) =>
          LET i == SharedIndex(zf.sheet[ri][ci])
          IN  ~(0 <= i /\ i < Len(shared_strings))

----------------------------------------------------------------------------
(* load_house_data from the rows the extractor yielded.                    *)

NextLoad == CheckHeader \/ CleanRow \/ StartDedup \/ DedupEntry \/ ReturnRows

\* 1 | Rumah A | 1500 | 120 | 90 | 3 | 2 | 1
BaseRow ==
    << <<49>>, <<82, 117, 109, 97, 104, 32, 65>>, <<49, 53, 48, 48>>, <<49, 50, 48>>,
       <<57, 48>>, <<51>>, <<50>>, <<49>> >>

\* The texts tried in a numeric column: "0", " 7 ", "07", no-break space + "7",
\* "", " ", "12a000", "1 2", "N/A", superscript two, Arabic-Indic three, "-1", "+7".
NumericTexts ==
    { <<48>>, <<32, 55, 32>>, <<48, 55>>, <<160, 55>>, <<>>, <<32>>,
      <<49, 50, 97, 48, 48, 48>>, <<49, 32, 50>>, <<78, 47, 65>>, <<178>>, <<1635>>,
      <<45, 49>>, <<43, 55>> }

\* The base row; the base row with one numeric text in the price column; with an
\* empty or a non-numeric text in each other numeric column; with "0" as garage;
\* with a name to trim; cut to each length from 1 to 7; and with a ninth column.
CleanPool ==
    {BaseRow}
    \cup {[BaseRow EXCEPT ![3] = t] : t \in NumericTexts}
    \cup {[BaseRow EXCEPT ![k] = t] : k \in 4..8, t \in {<<>>, <<120>>}}
    \cup {[BaseRow EXCEPT ![8] = <<48>>]}
    \cup {[BaseRow EXCEPT ![2] = <<32, 82, 117, 109, 97, 104, 32, 65, 32>>]}
    \cup {SubSeq(BaseRow, 1, n) : n \in 1..7}
    \cup {BaseRow \o << <<57>> >>}

MaxCleanRows == 2

InitClean ==
    /\ Fresh
    /\ argc = 0 /\ column = <<>> /\ zf = NoArchive
    /\ pc = "header"
    /\ \E data \in SeqsUpTo(CleanPool, MaxCleanRows) : rows = <<expected_header>> \o data

SpecClean == InitClean /\ [][NextLoad]_vars

\* The text without its leading and trailing whitespace.
Trimmed(s) ==
    LET inked == {k \in 1..Len(s) : ~IsSpace(s[k])}
    IN  IF inked = {} THEN <<>>
        ELSE SubSeq(s, CHOOSE a \in inked : \A k \in inked : a <= k, SetMax(inked))

\* Non-empty and only decimal digits.
OnlyDigits(s) == s # <<>> /\ \A k \in 1..Len(s) : IsDecimal(s[k])

\* The text at position k (from 0) of a row padded with empty strings.
At(row, k) == IF k + 1 <= Len(row) THEN row[k + 1] ELSE <<>>

\* Each of the six values at positions 2..7 is, once trimmed, non-empty and digits.
ValidRow(row) == \A k \in 2..7 : OnlyDigits(Trimmed(At(row, k)))

\* The data rows the cleaning loop is done with that are valid.
KeptRows == {k \in 2..(di - 1) : ValidRow(rows[k])}

\* The place in cleaned_rows of the record of kept row k.
Rank(k) == Cardinality({j \in KeptRows : j <= k})

\* C1: a data row gives a listing record if and only if each of the six values at
\* positions 2..7 is, after trimming, non-empty and made of (decimal) digits only;
\* a row that fails is dropped without an error, and the other rows are kept or
\* dropped as before and keep their order: the records are those of the valid
\* rows, one each, in the order of the rows.
C1_RecordIffSixNumericFields ==
    (pc \in {"clean", "dedup", "returned"}) =>
        /\ err = "none"
        /\ Len(cleaned_rows) = Cardinality(KeptRows)
        /\ \A k \in KeptRows :
              LET entry == cleaned_rows[Rank(k)]
              IN  /\ entry.name = Trimmed(At(rows[k], 1))
                  /\ entry.price = DecimalValue(Trimmed(At(rows[k], 2)), 0)
                  /\ entry.building_area = DecimalValue(Trimmed(At(rows[k], 3)), 0)
                  /\ entry.land_area = DecimalValue(Trimmed(At(rows[k], 4)), 0)
                  /\ entry.bedrooms = DecimalValue(Trimmed(At(rows[k], 5)), 0)
                  /\ entry.bathrooms = DecimalValue(Trimmed(At(rows[k], 6)), 0)
                  /\ entry.garage = DecimalValue(Trimmed(At(rows[k], 7)), 0)

\* A row with price "12a000" was dropped and the row after it, with price "0",
\* was kept.
C1_Witness ==
    /\ pc = "returned"
    /\ Len(rows) = 3
    /\ rows[2] = [BaseRow EXCEPT ![3] = <<49, 50, 97, 48, 48, 48>>]
    /\ rows[3] = [BaseRow EXCEPT ![3] = <<48>>]
    /\ Len(cleaned_rows) = 1
    /\ cleaned_rows[1].price = 0
    /\ err = "none"

\* C10: a data row of fewer than 8 columns never gives a listing record (the
\* padding leaves the garage column empty), so every record comes from a row of at
\* least 8 columns, and its six numeric fields are non-negative integers.
C10_ShortRowNeverARecord ==
    /\ [][(pc = "clean" /\ di <= Len(rows) /\ Len(rows[di]) < 8)
              => cleaned_rows' = cleaned_rows]_vars
    /\ [](\A k \in 1..Len(cleaned_rows) :
             \A f \in {"price", "building_area", "land_area", "bedrooms", "bathrooms",
                       "garage"} : cleaned_rows[k][f] \in Nat)
    /\ [](\A k \in 1..Len(unique_rows) :
             \A f \in {"price", "building_area", "land_area", "bedrooms", "bathrooms",
                       "garage"} : unique_rows[k][f] \in Nat)
    /\ [](Len(cleaned_rows) <= Cardinality({k \in 2..(di - 1) : Len(rows[k]) >= 8}))

\* A row of 7 columns, all filled, was dropped, and a row of 8 columns was kept.
C10_Witness ==
    /\ pc = "returned"
    /\ Len(rows) = 3
    /\ rows[2] = SubSeq(BaseRow, 1, 7)
    /\ rows[3] = BaseRow
    /\ Len(unique_rows) = 1
    /\ unique_rows[1].garage = 1

----------------------------------------------------------------------------
(* Deduplication: rows that clean to equal records, to records that differ *)
(* only in the name, and to records that differ in a number.               *)

\* The base row; the same with another NO; with the name to trim to the same
\* name; with the price written 01500; with the name Rumah B; with the price
\* 1501; with the garage 2; and a row that cleaning drops.
DedupPool ==
    { BaseRow,
      [BaseRow EXCEPT ![1] = <<50>>],
      [BaseRow EXCEPT ![2] = <<32, 82, 117, 109, 97, 104, 32, 65, 32>>],
      [BaseRow EXCEPT ![3] = <<48, 49, 53, 48, 48>>],
      [BaseRow EXCEPT ![2] = <<82, 117, 109, 97, 104, 32, 66>>],
      [BaseRow EXCEPT ![3] = <<49, 53, 48, 49>>],
      [BaseRow EXCEPT ![8] = <<50>>],
      [BaseRow EXCEPT ![3] = <<78, 47, 65>>] }

MaxDedupRows == 3

InitDedup ==
    /\ Fresh
    /\ argc = 0 /\ column = <<>> /\ zf = NoArchive
    /\ pc = "header"
    /\ \E data \in SeqsUpTo(DedupPool, MaxDedupRows) : rows = <<expected_header>> \o data

SpecDedup == InitDedup /\ [][NextLoad]_vars

\* The cleaned records deduplication is done with.
Deduplicated == IF pc = "dedup" THEN ui - 1 ELSE IF pc = "returned" THEN Len(cleaned_rows) ELSE 0

\* Equal in all seven fields.
SameSeven(a, b) ==
    /\ a.name = b.name /\ a.price = b.price /\ a.building_area = b.building_area
    /\ a.land_area = b.land_area /\ a.bedrooms = b.bedrooms
    /\ a.bathrooms = b.bathrooms /\ a.garage = b.garage

\* The first position at which the tuple of record e occurs in cleaned_rows.
FirstOccurrence(e) ==
    CHOOSE k \in 1..Len(cleaned_rows) :
        /\ SameSeven(cleaned_rows[k], e)
        /\ \A j \in 1..(k - 1) : ~SameSeven(cleaned_rows[j], e)

\* C2: the list load_house_data returns (a) holds no two records equal in all
\* seven fields, (b) holds every distinct seven-field tuple of the cleaned records
\* exactly once, and (c) is in the order of the first occurrences; records that
\* differ only in the name are both kept.
C2_DedupKeepsFirstOccurrences ==
    (pc \in {"dedup", "returned"}) =>
        /\ \A i \in 1..Len(unique_rows) : \A j \in 1..Len(unique_rows) :
              SameSeven(unique_rows[i], unique_rows[j]) => i = j
        /\ \A k \in 1..Deduplicated :
              Cardinality({i \in 1..Len(unique_rows) :
                              SameSeven(unique_rows[i], cleaned_rows[k])}) = 1
        /\ \A i \in 1..Len(unique_rows) :
              \E k \in 1..Deduplicated : SameSeven(unique_rows[i], cleaned_rows[k])
        /\ \A i \in 1..Len(unique_rows) : \A j \in 1..Len(unique_rows) :
              i < j => FirstOccurrence(unique_rows[i]) < FirstOccurrence(unique_rows[j])

\* Rumah B, Rumah A and Rumah B again, with the same numbers: the two names are
\* both kept, in the order of their first occurrences, and the repeat is dropped.
C2_Witness ==
    /\ pc = "returned"
    /\ Len(cleaned_rows) = 3
    /\ SameSeven(cleaned_rows[1], cleaned_rows[3])
    /\ cleaned_rows[1].name # cleaned_rows[2].name
    /\ cleaned_rows[1].price = cleaned_rows[2].price
    /\ cleaned_rows[1].garage = cleaned_rows[2].garage
    /\ unique_rows = <<cleaned_rows[1], cleaned_rows[2]>>

----------------------------------------------------------------------------
(* The header check: the expected header and headers that differ from it   *)
(* in one element, in the order, or in the length; and no rows at all.     *)

\* The expected header; NAMA for NAMA RUMAH; a trailing space after NO; LB and
\* LT exchanged; the first seven columns; a ninth column; a header of one column.
HeaderPool ==
    { expected_header,
      [expected_header EXCEPT ![2] = <<78, 65, 77, 65>>],
      [expected_header EXCEPT ![1] = <<78, 79, 32>>],
      [expected_header EXCEPT ![4] = <<76, 84>>, ![5] = <<76, 66>>],
      SubSeq(expected_header, 1, 7),
      expected_header \o << <<88>> >>,
      << <<78, 79>> >> }

MaxHeaderRows == 2

InitHeader ==
    /\ Fresh
    /\ argc = 0 /\ column = <<>> /\ zf = NoArchive
    /\ pc = "header"
    /\ \/ rows = <<>>
       \/ \E h \in HeaderPool :
             \E data \in SeqsUpTo({BaseRow, [BaseRow EXCEPT ![2] = <<82, 117, 109, 97, 104, 32, 66>>]},
                                  MaxHeaderRows) :
                rows = <<h>> \o data

SpecHeader == InitHeader /\ [][NextLoad]_vars

\* NO, NAMA RUMAH, HARGA, LB, LT, KT, KM, GRS
HeaderLiteral ==
    << <<78, 79>>, <<78, 65, 77, 65, 32, 82, 85, 77, 65, 72>>, <<72, 65, 82, 71, 65>>,
       <<76, 66>>, <<76, 84>>, <<75, 84>>, <<75, 77>>, <<71, 82, 83>> >>

\* No first row, or a first row that differs from the literal in its length or
\* in an element.
HeaderMismatch ==
    \/ rows = <<>>
    \/ Len(rows[1]) # Len(HeaderLiteral)
    \/ \E k \in 1..Len(HeaderLiteral) : rows[1][k] # HeaderLiteral[k]

\* C3: when the first row is not exactly the 8-element header (it differs in an
\* element, in the order or in the length), or when there is no row, the load
\* fails with a fatal error and returns no records, however many valid data rows
\* follow: it goes from the header check to the error and nowhere else.
C3_HeaderMismatchIsFatal ==
    HeaderMismatch =>
        /\ pc \in {"header", "raised"}
        /\ pc = "raised" => err = "ValueError"
        /\ cleaned_rows = <<>> /\ unique_rows = <<>>

\* A header with NAMA for NAMA RUMAH, two valid data rows after it: the error.
C3_Witness ==
    /\ pc = "raised" /\ err = "ValueError"
    /\ Len(rows) = 3
    /\ rows[1] = [HeaderLiteral EXCEPT ![2] = <<78, 65, 77, 65>>]
    /\ ValidRow(rows[2]) /\ ValidRow(rows[3])
    /\ unique_rows = <<>>

----------------------------------------------------------------------------
(* The whole program: main with 0..MaxArgs arguments on workbooks with a   *)
(* matching or a differing header and at most MaxMainRows data rows, on a  *)
(* workbook without the sheet, one without sheetData and one without rows. *)

MaxArgs == 3

MaxMainRows == 2

\* The c elements of row n of a sheet that holds the given texts inline.
InlineCells(texts, n) ==
    [k \in 1..Len(texts) |-> Cell(<<64 + k>> \o NatText(n), "absent", <<texts[k]>>)]

\* A data row as a list of c elements without row numbers in the references
\* yet: the base row; with the price N/A; with the name Rumah B; with the name
\* as shared string 0; as shared string 7, out of range; as shared string -1.
MainPool ==
    { [k \in 1..8 |-> [t |-> "absent", v |-> BaseRow[k]]],
      [k \in 1..8 |-> [t |-> "absent", v |-> IF k = 3 THEN <<78, 47, 65>> ELSE BaseRow[k]]],
      [k \in 1..8 |-> [t |-> "absent",
                       v |-> IF k = 2 THEN <<82, 117, 109, 97, 104, 32, 66>> ELSE BaseRow[k]]],
      [k \in 1..8 |-> IF k = 2 THEN [t |-> "s", v |-> <<48>>]
                      ELSE [t |-> "absent", v |-> BaseRow[k]]],
      [k \in 1..8 |-> IF k = 2 THEN [t |-> "s", v |-> <<55>>]
                      ELSE [t |-> "absent", v |-> BaseRow[k]]],
      [k \in 1..8 |-> IF k = 2 THEN [t |-> "s", v |-> <<45, 49>>]
                      ELSE [t |-> "absent", v |-> BaseRow[k]]] }

\* The row element number n with the given cells: references A<n>, B<n>, ...
RowElement(cs, n) == [k \in 1..Len(cs) |-> Cell(<<64 + k>> \o NatText(n), cs[k].t, <<cs[k].v>>)]

MainSheets ==
    {<<>>}
    \cup { <<InlineCells(h, 1)>> \o [n \in 1..Len(data) |-> RowElement(data[n], n + 1)] :
              h \in {expected_header, [expected_header EXCEPT ![2] = <<78, 65, 77, 65>>]},
              data \in SeqsUpTo(MainPool, MaxMainRows) }

MainArchives ==
    {Archive(sh, 2) : sh \in MainSheets}
    \cup { [Archive(<<>>, 2) EXCEPT !.hasSheet = FALSE],
           [Archive(<<>>, 2) EXCEPT !.hasSheetData = FALSE] }

Init ==
    /\ Fresh
    /\ column = <<>> /\ rows = <<>>
    /\ pc = "main"
    /\ argc \in 0..MaxArgs
    /\ zf \in MainArchives

Next ==
    \/ MainUsage \/ MainLoad
    \/ OpenSheet \/ NextCell \/ EndRow \/ EndSheet
    \/ CheckHeader \/ CleanRow \/ StartDedup \/ DedupEntry \/ ReturnRows
    \/ Export \/ Finish \/ Uncaught

Spec == Init /\ [][Next]_vars

\* C4: the destination file is opened for writing only after load_house_data has
\* returned a non-empty list: after any fatal error, and when no row survives
\* cleaning, the run ends with an error and the destination file is untouched.
C4_WriteOnlyAfterSuccessfulLoad ==
    /\ dest.opened =>
          /\ pc \in {"print", "done"}
          /\ err = "none"
          /\ called = {"load_house_data", "export_to_csv"}
          /\ unique_rows # <<>>
          /\ Len(dest.lines) = Len(unique_rows) + 1
    /\ err # "none" => (~dest.opened /\ dest.lines = <<>>)
    /\ (pc = "done" /\ err # "none") => exitStatus = 1
    /\ (pc = "done" /\ "load_house_data" \in called /\ unique_rows = <<>>) =>
          (err # "none" /\ exitStatus = 1 /\ ~dest.opened)

\* The only data row had the price N/A: no record, an error, no file.
C4_Witness ==
    /\ pc = "done" /\ argc = 2
    /\ Len(rows) = 2 /\ rows[1] = HeaderLiteral /\ ~ValidRow(rows[2])
    /\ called = {"load_house_data", "export_to_csv"}
    /\ err = "ValueError" /\ exitStatus = 1
    /\ ~dest.opened

\* C7: with an argument count other than 0 or 2, main prints the usage message
\* and returns 2 without calling load_house_data or export_to_csv (no input is
\* read, no output written); with 0 or 2 arguments and a load and a write that
\* succeed it returns 0.
C7_UsageErrorDoesNothing ==
    /\ argc \notin {0, 2} =>
          /\ pc \in {"main", "done"}
          /\ called = {}
          /\ rows = <<>> /\ shared_strings = <<>> /\ ~dest.opened /\ err = "none"
          /\ pc = "done" => (exitStatus = 2 /\ stderr # "")
    /\ (argc \in {0, 2} /\ pc = "done" /\ err = "none") =>
          (exitStatus = 0 /\ dest.opened /\ stderr = "")
    /\ exitStatus = 0 => argc \in {0, 2}

\* One argument: the usage message, status 2, nothing called.
C7_Witness ==
    /\ pc = "done" /\ argc = 1
    /\ exitStatus = 2 /\ stderr # ""
    /\ called = {} /\ ~dest.opened

====
